---- MODULE Spec2Model ----
(***************************************************************************)
(* udp-discovery: the service registry, its liveness monitor and the       *)
(* notifications it emits.                                                 *)
(*                                                                         *)
(* The repository carries three implementations of the same design:       *)
(*   "js"    src/index.js         (Discovery, the original)                *)
(*   "ts"    src/index.ts         (UDP, the single-file TypeScript port)   *)
(*   "tsmod" src/src/index.ts     (UDP, the modular TypeScript port)       *)
(* The variable impl says which one the process runs; it never changes.    *)
(* "ts" and "tsmod" share the handlers' code; they differ in how the       *)
(* constructor installs the liveness tick.                                 *)
(***************************************************************************)
EXTENDS Integers, Sequences, FiniteSets, TLC

VARIABLES
    impl,           \* which implementation this process runs
    now,            \* Date.now()
    services,       \* this.services: name -> service record (a partial map)
    hasServices,    \* whether this.services is an object yet (index.js creates it
                    \* in addNew, the TypeScript ports in the constructor)
    emitted,        \* per service name, the notifications emitted by the last step
    bus,            \* the MessageBus notifications emitted by the last step
    timedOutCount,  \* per name, timedOut notifications since its record was created or refreshed
    last,           \* the last operation: [op, name, ret, log]
    tasks,          \* per name, the live setInterval tasks that announce it
    sent,           \* the names whose Announcement datagram the last step sent
    rcvd,           \* the message the socket's "message" handler got in the last step
    wire,           \* the datagrams handed to socket.send by the last step
    heard,          \* per name, the first MaxHeard notifications a listener of
                    \* "available" and "unavailable" received (kept by ScenarioSpec)
    period          \* per name, the period of the announce task started last for
                    \* it, 0 when that task was cancelled (kept by TimerSpec)

vars == <<impl, now, services, hasServices, emitted, bus, timedOutCount, last, tasks,
          sent, rcvd, wire, heard, period>>

----------------------------------------------------------------------------
(* Bounds of the model *)

MaxClock == 4        \* the clock runs from 1 to MaxClock steps of TestInterval
MaxTimedOut == 2     \* timedOut notifications counted per record
MaxHeard == 2        \* notifications kept in a listener's log
MaxTasks == 2        \* live announce tasks counted per name

(* Program constants *)

DEFAULT_INTERVAL == 3000
TestInterval == 500

Impls == {"js", "ts", "tsmod"}
Names == {"a", "b"}
NoName == ""                     \* a name that is not a non-empty string
Data == {"d1", "d2"}             \* plain objects
ArrayData == "[d1]"              \* an array, which is JSON too
Circular == "circular"           \* an object that refers to itself
NoData == "undefined"            \* userData absent
Intervals == {0, TestInterval}   \* 0: a missing or non-positive interval
Addresses == {"10.0.0.1"}
OtherAddress == "10.0.0.2"       \* a second origin of announcements
MULTICAST_ADDRESS == "224.0.0.234"
NoAddress == "undefined"
EventNames == {"Hello"}
NoMessage == [kind |-> "none"]
Malformed == "{bad"              \* a payload that is not JSON
NullPayload == "null"            \* JSON, but not an object

----------------------------------------------------------------------------
(* Event names and reasons *)

\* src/index.js emits under the literal names
JsEventName(kind) == IF kind = "available" THEN "available" ELSE "unavailable"

\* the TypeScript ports emit under the values of enum availability
TsEventName(kind) == IF kind = "available" THEN "availabile" ELSE "unavailabile"

GLOBAL_EVENT_NAME == "MessageBus"

\* the names a listener of the documented events subscribes to
ListenerNames == {"available", "unavailable"}
Reasons == {"new", "availabilityChange", "timedOut"}

\* One call of emit(evName, name, record, reason). present: whether
\* this.services[name] exists when the listener runs; rec: the record argument.
Emission(kind, ev, name, reason, present, rec) ==
    [kind |-> kind, ev |-> ev, name |-> name, reason |-> reason,
     present |-> present, rec |-> rec]

NoEmissions == [n \in Names |-> <<>>]

Result(svc, em, ret, log) == [svc |-> svc, em |-> em, ret |-> ret, log |-> log]

Failed(svc, log) == Result(svc, NoEmissions, "false", log)

----------------------------------------------------------------------------
(* The registry *)

Has(svc, name) == name \in DOMAIN svc

nonEmptyStrAlways(value) == TRUE

\* is.nonEmptyStr(name), if (!ann.name): the name is a string and not empty
nonEmptyStr(value) == value # NoName

Put(svc, name, rec) == [m \in DOMAIN svc \cup {name} |-> IF m = name THEN rec ELSE svc[m]]

\* interval > 0 ? interval : DEFAULT_INTERVAL
LocalInterval(interval) == IF interval > 0 THEN interval ELSE DEFAULT_INTERVAL

\* if (!available) available = true;
JsAvailable(available) == IF ~available THEN TRUE ELSE available

hasUserDataAlways(userData) == TRUE

\* if (!userData) { ... return false; }
hasUserData(userData) == userData # NoData

\* JSON.stringify raises a TypeError for an object that refers to itself
Serializable(value) == value # Circular

\* JSON.stringify / JSON.parse of a value that JSON can carry
jsonStringify(value) == [json |-> value]
jsonParse(str) == str.json

\* obj-to-json's copyObj: a copy through JSON, a falsy value when there is
\* none (announce and update test if (!userDataCopy))
JsCopyObj(value) == IF Serializable(value) THEN jsonParse(jsonStringify(value)) ELSE NoData

\* ({ ...value }): the own enumerable properties, in a plain object; an
\* array comes out as an object keyed by its indices
TsCopyObj(value) == IF value = ArrayData THEN "{0:d1}" ELSE value

ServiceExistsNever(svc, name) == FALSE

\* if (this.services[name]) { ... return false; }
ServiceExists(svc, name) == Has(svc, name)

createServiceObjectNameless(name, interval, data, available, local, address, t) == [name |-> NoName, interval |-> interval, data |-> data, available |-> available, local |-> local, address |-> address, lastAnnTm |-> t, intervalId |-> FALSE]

\* createServiceObject and lockNameProperty: the record of a new name
createServiceObject(name, interval, data, available, local, address, t) ==
    [name |-> name, interval |-> interval, data |-> data, available |-> available,
     local |-> local, address |-> address, lastAnnTm |-> t, intervalId |-> FALSE]

\* Discovery.prototype.addNew
JsAddNew(svc, name, userData, interval, available, announce, address, t) ==
    IF ~nonEmptyStr(name) THEN Failed(svc, "addNew error: missing name")
    ELSE IF ~hasUserData(userData) THEN Failed(svc, "addNew error: no userData")
    ELSE IF ServiceExists(svc, name) THEN Failed(svc, "addNew: already exists")
    ELSE LET av == JsAvailable(available)
             rec == createServiceObject(name, LocalInterval(interval), userData, av,
                                        announce, address, t)
             kind == IF av THEN "available" ELSE "unavailable"
         IN  Result(Put(svc, name, [rec EXCEPT !.intervalId = announce]),
                    [NoEmissions EXCEPT ![name] =
                        <<Emission(kind, JsEventName(kind), name, "new", TRUE, "live")>>],
                    "true", "addNew")

\* UDP.addNew / UDP.addNewService
TsAddNew(svc, name, userData, interval, available, announce, address, t) ==
    IF ~nonEmptyStr(name) THEN Failed(svc, "addNew error: missing name")
    ELSE IF ~hasUserData(userData) THEN Failed(svc, "addNew error: no userData")
    ELSE IF ServiceExists(svc, name) THEN Failed(svc, "addNew: already exists")
    ELSE LET rec == createServiceObject(name, LocalInterval(interval), userData, available,
                                        announce, address, t)
             kind == IF available THEN "available" ELSE "unavailable"
         IN  Result(Put(svc, name, [rec EXCEPT !.intervalId = announce]),
                    [NoEmissions EXCEPT ![name] =
                        <<Emission(kind, TsEventName(kind), name, "new", TRUE, "live")>>],
                    "true", "addNew")

\* Discovery.prototype.announce
JsAnnounce(svc, name, userData, interval, available, t) ==
    IF name = NoName THEN Failed(svc, "announce error: bad name")
    ELSE IF ~hasUserData(userData) THEN Failed(svc, "announce error: no userData")
    ELSE JsAddNew(svc, name, JsCopyObj(userData), LocalInterval(interval),
                  JsAvailable(available), TRUE, NoAddress, t)

\* UDP.announce
TsAnnounce(svc, name, userData, interval, available, t) ==
    IF name = NoName THEN Failed(svc, "announce error: bad name")
    ELSE IF ~hasUserData(userData) THEN Failed(svc, "announce error: no userData")
    ELSE TsAddNew(svc, name, TsCopyObj(userData), LocalInterval(interval), available,
                  TRUE, NoAddress, t)

announce(im, svc, name, userData, interval, available, t) ==
    IF im = "js" THEN JsAnnounce(svc, name, userData, interval, available, t)
    ELSE TsAnnounce(svc, name, userData, interval, available, t)

AvailabilityChangedAlways(available, oldAvail) == TRUE

\* if (available !== oldAvail)
AvailabilityChanged(available, oldAvail) == available # oldAvail

LatestAddress(old, address) == IF address # NoAddress THEN address ELSE old.address

\* if (rinfo && rinfo.address && !this.services[name].address)
\*     this.services[name].address = rinfo.address;
StickyAddress(old, address) == IF address # NoAddress /\ old.address = NoAddress THEN address ELSE old.address

OverwriteAsRemote(old, data, interval, addr) == [old EXCEPT !.interval = interval, !.data = data, !.address = addr, !.local = FALSE, !.intervalId = FALSE]

\* this.services[name].interval = interval; this.services[name].data = data;
\* and the address: the fields updateExisting assigns whatever available is
Overwrite(old, data, interval, addr) ==
    [old EXCEPT !.interval = interval, !.data = data, !.address = addr]

\* Discovery.prototype.updateExisting
JsUpdateExisting(svc, name, data, interval, available, address) ==
    LET old == svc[name]
        addr == StickyAddress(old, address)
        upd == Overwrite(old, data, interval, addr)
        kind == IF available THEN "available" ELSE "unavailable"
    IN  IF AvailabilityChanged(available, old.available)
        THEN Result(Put(svc, name, [upd EXCEPT !.available = available]),
                    [NoEmissions EXCEPT ![name] =
                        <<Emission(kind, JsEventName(kind), name, "availabilityChange",
                                   TRUE, "live")>>],
                    "true", "updateExisting")
        ELSE Result(Put(svc, name, upd), NoEmissions, "true", "updateExisting")

\* UDP.updateExisting
TsUpdateExisting(svc, name, userData, interval, available, address) ==
    LET old == svc[name]
        addr == StickyAddress(old, address)
        upd == Overwrite(old, userData, interval, addr)
        kind == IF available THEN "available" ELSE "unavailable"
    IN  IF AvailabilityChanged(available, old.available)
        THEN Result(Put(svc, name, [upd EXCEPT !.available = available]),
                    [NoEmissions EXCEPT ![name] =
                        <<Emission(kind, TsEventName(kind), name, "availabilityChange",
                                   TRUE, "live")>>],
                    "true", "updateExisting")
        ELSE Result(Put(svc, name, upd), NoEmissions, "true", "updateExisting")

\* a TypeError raised in the handler: this.services[name].available of a
\* name without a record, or a call of a function the library does not have
Thrown(svc) == Result(svc, NoEmissions, "throw", "TypeError")

\* Discovery.prototype.update
JsUpdate(svc, name, userData, interval, available) ==
    IF name = NoName THEN Failed(svc, "update error: missing name")
    ELSE IF ~hasUserData(userData) THEN Failed(svc, "update error: no userData")
    ELSE IF ~Has(svc, name) THEN Thrown(svc)
    ELSE JsUpdateExisting(svc, name, JsCopyObj(userData), LocalInterval(interval),
                          JsAvailable(available), NoAddress)

\* UDP.update
TsUpdate(svc, name, userData, interval, available) ==
    IF name = NoName THEN Failed(svc, "update error: missing name")
    ELSE IF ~hasUserData(userData) THEN Failed(svc, "update error: no userData")
    ELSE IF ~Has(svc, name) THEN Thrown(svc)
    ELSE TsUpdateExisting(svc, name, TsCopyObj(userData), LocalInterval(interval),
                          available, NoAddress)

update(im, svc, name, userData, interval, available) ==
    IF im = "js" THEN JsUpdate(svc, name, userData, interval, available)
    ELSE TsUpdate(svc, name, userData, interval, available)

RefreshNever(rec, t) == rec

\* this.services[ann.name].lastAnnTm = Date.now();
Refresh(rec, t) == [rec EXCEPT !.lastAnnTm = t]

\* Discovery.prototype.handleAnnouncement
JsHandleAnnouncement(svc, ann, address, t) ==
    IF ~nonEmptyStr(ann.name) THEN Failed(svc, "handleAnnouncement error: no name.")
    ELSE IF Has(svc, ann.name)
    THEN JsUpdateExisting(Put(svc, ann.name, Refresh(svc[ann.name], t)),
                          ann.name, ann.data, ann.interval, ann.available, address)
    ELSE JsAddNew(svc, ann.name, ann.data, ann.interval, ann.available, FALSE, address, t)

\* UDP.handleAnnouncement
TsHandleAnnouncement(svc, ann, address, t) ==
    IF ~nonEmptyStr(ann.name) THEN Failed(svc, "handleAnnouncement error: no name.")
    ELSE IF Has(svc, ann.name)
    THEN TsUpdateExisting(Put(svc, ann.name, Refresh(svc[ann.name], t)),
                          ann.name, ann.data, ann.interval, ann.available, address)
    ELSE TsAddNew(svc, ann.name, ann.data, ann.interval, ann.available, FALSE, address, t)

handleAnnouncement(im, svc, ann, address, t) ==
    IF im = "js" THEN JsHandleAnnouncement(svc, ann, address, t)
    ELSE TsHandleAnnouncement(svc, ann, address, t)

AnnouncingAlways(svc, name) == TRUE

\* this.services[name].intervalId: the record has an announce task
Announcing(svc, name) == svc[name].intervalId

\* Discovery.prototype.pause / UDP.pause
pause(svc, name) ==
    IF name = NoName THEN Failed(svc, "stopAnouncement: bad name param")
    ELSE IF DOMAIN svc = {} THEN Failed(svc, "stopAnnounce: There are no services to stop")
    ELSE IF ~Has(svc, name) THEN Failed(svc, "stopAnnounce error: no entry")
    ELSE IF ~Announcing(svc, name) THEN Failed(svc, "stopAnnounce error: not announcing")
    ELSE Result(Put(svc, name, [svc[name] EXCEPT !.intervalId = FALSE]),
                NoEmissions, "true", "pause")

\* self.services[name].annInterval = interval; the field exists from then on
WithAnnInterval(rec, interval) ==
    [f \in DOMAIN rec \cup {"annInterval"} |->
        IF f = "annInterval" THEN interval ELSE rec[f]]

\* Discovery.prototype.resume. positiveintDefined: whether the is2 library has
\* a function is.positiveint (the code spells is.positiveInt so elsewhere)
JsResume(svc, name, interval, positiveintDefined) ==
    IF name = NoName THEN Failed(svc, "resumeAnnounce error: invalid name")
    ELSE IF ~positiveintDefined THEN Thrown(svc)
    ELSE IF ~Has(svc, name) THEN Failed(svc, "resumeAnnounce error: no entry")
    ELSE IF svc[name].intervalId
    THEN Failed(svc, "resumeAnnounce error: already announcing")
    ELSE LET rec == WithAnnInterval(svc[name], LocalInterval(interval))
         IN  Result(Put(svc, name, [f \in DOMAIN rec |->
                                       IF f = "intervalId" THEN TRUE ELSE rec[f]]),
                    NoEmissions, "true", "resume")

\* UDP.resume: the interval is stored before the announce task is looked at
TsResume(svc, name, interval) ==
    IF name = NoName THEN Failed(svc, "resumeAnnounce error: invalid name")
    ELSE IF ~Has(svc, name) THEN Failed(svc, "resumeAnnounce error: no entry")
    ELSE LET upd == Put(svc, name, [svc[name] EXCEPT !.interval = LocalInterval(interval)])
         IN  IF svc[name].intervalId
             THEN Failed(upd, "resumeAnnounce error: already announcing")
             ELSE Result(Put(upd, name, [upd[name] EXCEPT !.intervalId = TRUE]),
                         NoEmissions, "true", "resume")

resume(im, svc, name, interval, positiveintDefined) ==
    IF im = "js" THEN JsResume(svc, name, interval, positiveintDefined)
    ELSE TsResume(svc, name, interval)

StripNothing(rec) == rec

\* copy.lastAnnTm = undefined; copy.intervalId = undefined; (delete, in
\* index.js): JSON.stringify leaves these fields out
Strip(rec) == [f \in DOMAIN rec \ {"lastAnnTm", "intervalId"} |-> rec[f]]

\* socket.send(buf, 0, buf.length, port, address)
Datagram(to, payload) == [to |-> to, payload |-> payload]

\* Discovery.prototype.sendAnnounce / UDP.sendAnnounce: the datagrams sent
announcementDatagrams(svc, name) ==
    IF Has(svc, name) /\ Serializable(svc[name].data)
    THEN <<Datagram(MULTICAST_ADDRESS, jsonParse(jsonStringify(Strip(svc[name]))))>>
    ELSE <<>>

----------------------------------------------------------------------------
(* Events: sendEvent, sendEventTo, sendEventToService, sendEventToAddress   *)

\* what a send did: the notifications on the local bus, the datagrams handed
\* to the socket, and how the call ended
Sent(b, w, ret) == [bus |-> b, wire |-> w, ret |-> ret]

\* this.emit(GLOBAL_EVENT_NAME, eventName, data)
BusEvent(eventName, data) == [ev |-> GLOBAL_EVENT_NAME, eventName |-> eventName, data |-> data]

\* Discovery.prototype.sendEventToAddress / UDP.sendEventToAddress
sendEventToAddress(address, eventName, data) ==
    IF eventName = "" \/ address = NoAddress THEN <<>>
    ELSE <<Datagram(address, jsonParse(jsonStringify([eventName |-> eventName, data |-> data])))>>

\* Discovery.prototype.sendEventToService: this.services is undefined until
\* the first addNew, and the non-local branch calls this.sendEventToAddr, a
\* method the object does not have
JsSendEventToService(svc, hasSvc, name, eventName, data) ==
    IF name = NoName THEN Sent(<<>>, <<>>, "false")
    ELSE IF ~hasSvc THEN Sent(<<>>, <<>>, "throw")
    ELSE IF ~Has(svc, name) THEN Sent(<<>>, <<>>, "false")
    ELSE IF eventName = "" THEN Sent(<<>>, <<>>, "false")
    ELSE IF svc[name].local THEN Sent(<<BusEvent(eventName, data)>>, <<>>, "true")
    ELSE Sent(<<>>, <<>>, "throw")

\* UDP.sendEventToService; the modular port tests the address before the call
\* that index.ts makes with it, and sendEventToAddress rejects a missing one
TsSendEventToService(svc, name, eventName, data) ==
    IF name = NoName THEN Sent(<<>>, <<>>, "false")
    ELSE IF ~Has(svc, name) THEN Sent(<<>>, <<>>, "false")
    ELSE IF eventName = "" THEN Sent(<<>>, <<>>, "false")
    ELSE IF svc[name].local THEN Sent(<<BusEvent(eventName, data)>>, <<>>, "true")
    ELSE Sent(<<>>, sendEventToAddress(svc[name].address, eventName, data), "true")

sendEventToService(im, svc, hasSvc, name, eventName, data) ==
    IF im = "js" THEN JsSendEventToService(svc, hasSvc, name, eventName, data)
    ELSE TsSendEventToService(svc, name, eventName, data)

\* the query functions an application passes to sendEventTo
Queries == {"local", "remote", "none"}

\* queryFunc(this.services[name]) === true
Matches(query, rec) ==
    CASE query = "local" -> rec.local
      [] query = "remote" -> ~rec.local
      [] OTHER -> FALSE

\* Object.keys(this.services)
Keys(svc) == SelectSeq(<<"a", "b">>, LAMBDA n : Has(svc, n))

\* the names sendEventTo calls sendEventToService with. In index.js and
\* index.ts the loop over the records is for (i = 0; i < this.services; i++),
\* which compares a number with an object and never runs
Targets(im, svc, dest) ==
    IF dest.kind \in {"name", "array"} THEN dest.names
    ELSE IF im = "tsmod" THEN SelectSeq(Keys(svc), LAMBDA n : Matches(dest.query, svc[n]))
    ELSE <<>>

\* the calls of sendEventToService in turn; an exception ends them
RECURSIVE Deliver(_, _, _, _, _, _)
Deliver(im, svc, hasSvc, targets, eventName, data) ==
    IF targets = <<>> THEN Sent(<<>>, <<>>, "true")
    ELSE LET r == sendEventToService(im, svc, hasSvc, Head(targets), eventName, data)
         IN  IF r.ret = "throw" THEN r
             ELSE LET rest == Deliver(im, svc, hasSvc, Tail(targets), eventName, data)
                  IN  Sent(r.bus \o rest.bus, r.wire \o rest.wire, rest.ret)

\* Discovery.prototype.sendEventTo / UDP.sendEventTo
sendEventTo(im, svc, hasSvc, dest, eventName, data) ==
    IF dest.kind = "bad" THEN Sent(<<>>, <<>>, "false")
    ELSE IF eventName = "" THEN Sent(<<>>, <<>>, "false")
    ELSE Deliver(im, svc, hasSvc, Targets(im, svc, dest), eventName, data)

\* Discovery.prototype.sendEvent / UDP.sendEvent
sendEvent(eventName, data) ==
    IF eventName = "" THEN Sent(<<>>, <<>>, "false")
    ELSE Sent(<<>>, sendEventToAddress(MULTICAST_ADDRESS, eventName, data), "true")

----------------------------------------------------------------------------

\* Discovery.prototype.sendAnnounce / UDP.sendAnnounce, called by an announce
\* task with this.services[name]: the names it sends a datagram for
sendAnnounce(svc, name) ==
    IF Has(svc, name) /\ Serializable(svc[name].data) THEN {name} ELSE {}

\* how the call of sendAnnounce in the task's callback ends. JSON.stringify
\* is called outside any try block, so its TypeError leaves the callback
sendAnnounceResult(svc, name) ==
    IF ~Has(svc, name) THEN "false"
    ELSE IF Serializable(svc[name].data) THEN "true"
    ELSE "throw"

\* objToJson.jsonParse(message.toString()) of a payload that is not an
\* announcement or an event. obj-to-json returns a falsy value for text that
\* is not JSON; the TypeScript ports call JSON.parse, which raises SyntaxError
Decode(im, payload) ==
    IF payload = NullPayload THEN "null"
    ELSE IF im = "js" THEN "undefined"
    ELSE "SyntaxError"

\* Discovery.prototype.getData / UDP.getData
getData(svc, name) ==
    IF name = NoName THEN "false"
    ELSE IF ~Has(svc, name) THEN "false"
    ELSE svc[name].data

----------------------------------------------------------------------------
(* The liveness monitor *)

TimedOutAtThreshold(rec, t) == t - rec.lastAnnTm >= 2 * rec.interval

\* now - lastAnnTm > 2 * interval
TimedOut(rec, t) == t - rec.lastAnnTm > 2 * rec.interval

\* Discovery.prototype.handleTimeOut: delete services[name], then emit
JsHandleTimeOut(svc, t) ==
    IF DOMAIN svc = {} THEN Result(svc, NoEmissions, "void", "none")
    ELSE LET expired == {n \in DOMAIN svc : svc[n].lastAnnTm # 0 /\ TimedOut(svc[n], t)}
         IN  Result([m \in DOMAIN svc \ expired |-> svc[m]],
                    [n \in Names |->
                        IF n \in expired
                        THEN <<Emission("unavailable", JsEventName("unavailable"), n,
                                        "timedOut", FALSE, "undefined")>>
                        ELSE <<>>],
                    "void", "none")

\* UDP.handleTimeOut: emit, the record stays in this.services
TsHandleTimeOut(svc, t) ==
    IF DOMAIN svc = {}
    THEN Result(svc, NoEmissions, "void", "handleTimeOut no services, exiting.")
    ELSE LET expired == {n \in DOMAIN svc : TimedOut(svc[n], t)}
         IN  Result(svc,
                    [n \in Names |->
                        IF n \in expired
                        THEN <<Emission("unavailable", TsEventName("unavailable"), n,
                                        "timedOut", TRUE, "live")>>
                        ELSE <<>>],
                    "void", "none")

\* setInterval(this.handleTimeOut, ...): the callback runs with the Timeout
\* object as this, so this.services is undefined and the handler returns
TsModTick(svc, t) ==
    Result(svc, NoEmissions, "void", "[UDP handleTimeOut] Error: no services, exiting.")

\* the callback the constructor hands to setInterval
tick(im, svc, t) ==
    IF im = "js" THEN JsHandleTimeOut(svc, t)
    ELSE IF im = "ts" THEN TsHandleTimeOut(svc, t)
    ELSE TsModTick(svc, t)

----------------------------------------------------------------------------
(* State machine *)

Init ==
    /\ impl \in Impls
    /\ now = TestInterval
    /\ services = << >>
    /\ hasServices = (impl # "js")
    /\ emitted = NoEmissions
    /\ bus = <<>>
    /\ timedOutCount = [n \in Names |-> 0]
    /\ last = [op |-> "constructor", name |-> NoName, ret |-> "void", log |-> "none"]
    /\ tasks = [n \in Names |-> 0]
    /\ sent = {}
    /\ rcvd = NoMessage
    /\ wire = <<>>
    /\ heard = [n \in Names |-> <<>>]
    /\ period = [n \in Names |-> 0]

\* the names whose record the step created
Created(svc, svc2) == DOMAIN svc2 \ DOMAIN svc

Apply(op, name, r) ==
    /\ services' = r.svc
    /\ hasServices' = (hasServices \/ DOMAIN r.svc # {})
    /\ emitted' = r.em
    /\ bus' = <<>>
    /\ last' = [op |-> op, name |-> name, ret |-> r.ret, log |-> r.log]
    /\ UNCHANGED <<impl, now>>

\* a step that sends no announcement and receives no message
Quiet == sent' = {} /\ rcvd' = NoMessage /\ wire' = <<>>

\* setInterval(sendAnnouncement, ...): one more task announces name
SetInterval(tk, name) == [tk EXCEPT ![name] = @ + 1]

\* clearInterval(this.services[name].intervalId): that task is gone
ClearInterval(tk, name) == [tk EXCEPT ![name] = @ - 1]

\* the application calls announce(name, userData, interval, available)
Announce(name, userData, interval, available) ==
    LET r == announce(impl, services, name, userData, interval, available, now)
    IN  /\ r.ret = "true" => tasks[name] < MaxTasks
        /\ Apply("announce", name, r)
        /\ timedOutCount' = [n \in Names |->
                IF n \in Created(services, r.svc) THEN 0 ELSE timedOutCount[n]]
        /\ tasks' = IF r.ret = "true" THEN SetInterval(tasks, name) ELSE tasks
        /\ Quiet

\* the application calls update(name, userData, interval, available)
Update(name, userData, interval, available) ==
    /\ Apply("update", name, update(impl, services, name, userData, interval, available))
    /\ UNCHANGED <<timedOutCount, tasks>>
    /\ Quiet

\* the application calls pause(name)
Pause(name) ==
    LET r == pause(services, name)
    IN  /\ Apply("pause", name, r)
        /\ tasks' = IF r.ret = "true" THEN ClearInterval(tasks, name) ELSE tasks
        /\ UNCHANGED timedOutCount
        /\ Quiet

\* the application calls resume(name, interval)
Resume(name, interval, positiveintDefined) ==
    LET r == resume(impl, services, name, interval, positiveintDefined)
    IN  /\ r.ret = "true" => tasks[name] < MaxTasks
        /\ Apply("resume", name, r)
        /\ tasks' = IF r.ret = "true" THEN SetInterval(tasks, name) ELSE tasks
        /\ UNCHANGED timedOutCount
        /\ Quiet

\* an announce task of name fires: sendAnnouncement()
SendAnnouncement(name) ==
    /\ tasks[name] > 0
    /\ sent' = sendAnnounce(services, name)
    /\ wire' = announcementDatagrams(services, name)
    /\ rcvd' = NoMessage
    /\ emitted' = NoEmissions
    /\ bus' = <<>>
    /\ last' = [op |-> "send", name |-> name,
                ret |-> sendAnnounceResult(services, name), log |-> "none"]
    /\ UNCHANGED <<impl, now, services, hasServices, timedOutCount, tasks>>

\* the socket's "message" handler gets an announcement (a message without eventName)
OnAnnouncement(ann, address) ==
    LET r == handleAnnouncement(impl, services, ann, address, now)
    IN  /\ Apply("message", ann.name, r)
        /\ timedOutCount' = [n \in Names |->
                IF n = ann.name /\ r.ret = "true" THEN 0 ELSE timedOutCount[n]]
        /\ sent' = {}
        /\ wire' = <<>>
        /\ rcvd' = [kind |-> "announcement", ann |-> ann, address |-> address]
        /\ UNCHANGED tasks

\* the socket's "message" handler gets an event (a message with eventName)
OnEvent(eventName, data) ==
    /\ bus' = <<[ev |-> GLOBAL_EVENT_NAME, eventName |-> eventName, data |-> data]>>
    /\ emitted' = NoEmissions
    /\ last' = [op |-> "event", name |-> NoName, ret |-> "void", log |-> "none"]
    /\ sent' = {}
    /\ wire' = <<>>
    /\ rcvd' = [kind |-> "event", eventName |-> eventName, data |-> data]
    /\ UNCHANGED <<impl, now, services, hasServices, timedOutCount, tasks>>

IsEventNever(obj) == FALSE

\* if (obj.eventName): the empty string is falsy
IsEvent(obj) == obj.eventName # ""

\* the socket's "message" handler gets one object that has an eventName field
\* and the fields of an announcement
OnMixed(eventName, ann, address) ==
    LET obj == [eventName |-> eventName, data |-> ann.data]
        r == IF IsEvent(obj)
             THEN Result(services, NoEmissions, "void", "none")
             ELSE handleAnnouncement(impl, services, ann, address, now)
    IN  /\ services' = r.svc
        /\ hasServices' = (hasServices \/ DOMAIN r.svc # {})
        /\ emitted' = r.em
        /\ bus' = IF IsEvent(obj)
                  THEN <<[ev |-> GLOBAL_EVENT_NAME, eventName |-> obj.eventName,
                          data |-> obj.data]>>
                  ELSE <<>>
        /\ last' = [op |-> "message", name |-> ann.name, ret |-> r.ret, log |-> r.log]
        /\ timedOutCount' = [n \in Names |->
                IF n = ann.name /\ r.ret = "true" THEN 0 ELSE timedOutCount[n]]
        /\ sent' = {}
        /\ wire' = <<>>
        /\ rcvd' = [kind |-> "mixed", eventName |-> eventName, ann |-> ann,
                    address |-> address]
        /\ UNCHANGED <<impl, now, tasks>>

\* the socket's "message" handler gets a payload that decodes to no object
OnPayload(payload) ==
    LET obj == Decode(impl, payload)
    IN  /\ last' = [op |-> "message", name |-> NoName,
                    ret |-> IF obj = "SyntaxError" THEN "throw" ELSE "void",
                    log |-> IF obj = "SyntaxError" THEN "SyntaxError" ELSE "bad announcement"]
        /\ emitted' = NoEmissions
        /\ bus' = <<>>
        /\ sent' = {}
        /\ wire' = <<>>
        /\ rcvd' = [kind |-> "payload", payload |-> payload]
        /\ UNCHANGED <<impl, now, services, hasServices, timedOutCount, tasks>>

TimedOutEmissions(em, n) == Len(SelectSeq(em[n], LAMBDA e : e.reason = "timedOut"))

\* the liveness timer fires
Tick ==
    LET r == tick(impl, services, now)
    IN  /\ \A n \in Names : timedOutCount[n] + TimedOutEmissions(r.em, n) <= MaxTimedOut
        /\ Apply("tick", NoName, r)
        /\ timedOutCount' = [n \in Names |-> timedOutCount[n] + TimedOutEmissions(r.em, n)]
        /\ UNCHANGED tasks
        /\ Quiet

\* time passes
Advance ==
    /\ now + TestInterval <= MaxClock * TestInterval
    /\ now' = now + TestInterval
    /\ emitted' = NoEmissions
    /\ bus' = <<>>
    /\ last' = [op |-> "advance", name |-> NoName, ret |-> "void", log |-> "none"]
    /\ UNCHANGED <<impl, services, hasServices, timedOutCount, tasks>>
    /\ Quiet

\* "a" is the service this process registers; "b" is a peer's service, heard
\* from the network with one payload, while the clock is at its start. An
\* announcement carries the interval its sender chose, which may be 0 or
\* missing.
LocalNames == {"a"}
Announcements ==
    [name : LocalNames, data : Data, interval : {TestInterval}, available : BOOLEAN]
    \cup [name : LocalNames, data : {"d1"}, interval : {0}, available : {TRUE}]
    \cup [name : Names \ LocalNames, data : {"d1"}, interval : {DEFAULT_INTERVAL},
          available : {TRUE}]

\* announce without a name, announce without data
BadAnnounceInputs ==
    {[name |-> NoName, userData |-> "d1"], [name |-> "a", userData |-> NoData]}

\* an announcement that lacks a name
Nameless == [name |-> NoName, data |-> "d1", interval |-> TestInterval, available |-> TRUE]

\* the announcement fields of a message that also carries an eventName
MixedAnnouncement == [name |-> "a", data |-> "d1", interval |-> TestInterval, available |-> TRUE]

Next ==
    \/ \E name \in LocalNames, userData \in Data, interval \in Intervals,
          available \in BOOLEAN :
          Announce(name, userData, interval, available) /\ UNCHANGED <<heard, period>>
    \/ \E name \in LocalNames, userData \in Data, interval \in Intervals,
          available \in BOOLEAN :
          Update(name, userData, interval, available) /\ UNCHANGED <<heard, period>>
    \/ \E bad \in BadAnnounceInputs :
          Announce(bad.name, bad.userData, TestInterval, TRUE) /\ UNCHANGED <<heard, period>>
    \/ Announce("a", ArrayData, TestInterval, TRUE) /\ UNCHANGED <<heard, period>>
    \/ \E name \in LocalNames : Pause(name) /\ UNCHANGED <<heard, period>>
    \/ \E name \in LocalNames, interval \in Intervals, positiveintDefined \in BOOLEAN :
          Resume(name, interval, positiveintDefined) /\ UNCHANGED <<heard, period>>
    \/ \E name \in LocalNames : SendAnnouncement(name) /\ UNCHANGED <<heard, period>>
    \/ \E payload \in {Malformed, NullPayload} : OnPayload(payload) /\ UNCHANGED <<heard, period>>
    \/ \E ann \in Announcements, address \in Addresses :
          /\ ann.name \in LocalNames \/ now = TestInterval
          /\ OnAnnouncement(ann, address) /\ UNCHANGED <<heard, period>>
    \/ \E address \in Addresses :
          /\ now = 2 * TestInterval
          /\ OnAnnouncement(Nameless, address) /\ UNCHANGED <<heard, period>>
    \/ \E eventName \in EventNames : OnEvent(eventName, "d1") /\ UNCHANGED <<heard, period>>
    \/ \E eventName \in EventNames \cup {""}, address \in Addresses :
          /\ now = TestInterval
          /\ OnMixed(eventName, MixedAnnouncement, address) /\ UNCHANGED <<heard, period>>
    \/ Tick /\ UNCHANGED <<heard, period>>
    \/ Advance /\ UNCHANGED <<heard, period>>

Spec == Init /\ [][Next]_vars

----------------------------------------------------------------------------
(* Events sent by the application to services of the registry.               *)

\* the destinations an application passes to sendEventTo: a name, an array of
\* names, a query function, or none of these (an empty string, a number)
Destinations ==
    [kind : {"name"}, names : {<<"a">>, <<"b">>}]
        \cup [kind : {"array"}, names : {<<"a", "b">>, <<"b", "a">>}]
        \cup [kind : {"function"}, query : Queries]
        \cup [kind : {"bad"}]

\* the application calls sendEventTo(dest, eventName, data)
SendEventTo(dest, eventName, data) ==
    LET r == sendEventTo(impl, services, hasServices, dest, eventName, data)
    IN  /\ bus' = r.bus
        /\ wire' = r.wire
        /\ last' = [op |-> "sendEventTo", name |-> NoName, ret |-> r.ret, log |-> "none",
                    dest |-> dest, eventName |-> eventName, data |-> data]
        /\ emitted' = NoEmissions
        /\ sent' = {}
        /\ rcvd' = NoMessage
        /\ UNCHANGED <<impl, now, services, hasServices, timedOutCount, tasks>>

\* the application calls sendEvent(eventName, data)
SendEvent(eventName, data) ==
    LET r == sendEvent(eventName, data)
    IN  /\ bus' = r.bus
        /\ wire' = r.wire
        /\ last' = [op |-> "sendEvent", name |-> NoName, ret |-> r.ret, log |-> "none"]
        /\ emitted' = NoEmissions
        /\ sent' = {}
        /\ rcvd' = NoMessage
        /\ UNCHANGED <<impl, now, services, hasServices, timedOutCount, tasks>>

EventNext ==
    \/ \E userData \in Data :
          Announce("a", userData, TestInterval, TRUE) /\ UNCHANGED <<heard, period>>
    \/ \E name \in Names, address \in Addresses \cup {OtherAddress} :
          OnAnnouncement([name |-> name, data |-> "d1", interval |-> TestInterval,
                          available |-> TRUE], address)
          /\ UNCHANGED <<heard, period>>
    \/ \E dest \in Destinations, eventName \in EventNames \cup {""} :
          SendEventTo(dest, eventName, "d1") /\ UNCHANGED <<heard, period>>
    \/ \E eventName \in EventNames \cup {""} :
          SendEvent(eventName, "d1") /\ UNCHANGED <<heard, period>>
    \/ Tick /\ UNCHANGED <<heard, period>>
    \/ Advance /\ UNCHANGED <<heard, period>>

EventSpec == Init /\ [][EventNext]_vars

----------------------------------------------------------------------------
(* A listener of the `new` notification that calls back into the object.     *)
(* emit runs the listeners before it returns, in the middle of addNew.       *)

\* what the listener does with the name it is notified of
ListenerCalls == {"none", "pause", "resume"}

\* the registry when addNew emits: the record is stored, the announce task is
\* not started yet and, in index.js, lastAnnTm is not set yet
AtEmit(im, svc, name) ==
    Put(svc, name, [svc[name] EXCEPT !.intervalId = FALSE,
                                     !.lastAnnTm = IF im = "js" THEN 0 ELSE @])

\* the call the listener makes
ListenerCall(im, svc, name, call, interval) ==
    CASE call = "pause" -> pause(svc, name)
      [] call = "resume" -> resume(im, svc, name, interval, TRUE)
      [] OTHER -> Result(svc, NoEmissions, "void", "none")

\* addNew after emit has returned: lastAnnTm = Date.now() (index.js) and
\* intervalId = setInterval(sendAnnouncement, interval)
AfterEmit(svc, name, t) ==
    Put(svc, name, [svc[name] EXCEPT !.lastAnnTm = t, !.intervalId = TRUE])

\* the application calls announce(name, userData, interval, available) with a
\* listener of the `new` notification installed
AnnounceHeard(name, userData, interval, available, call) ==
    LET r == announce(impl, services, name, userData, interval, available, now)
        seen == AtEmit(impl, r.svc, name)
        lr == ListenerCall(impl, seen, name, call, interval)
        started == IF call = "resume" /\ lr.ret = "true" THEN 2 ELSE 1
    IN  /\ r.ret = "true"
        /\ tasks[name] + started <= MaxTasks
        /\ services' = AfterEmit(lr.svc, name, now)
        /\ hasServices' = TRUE
        /\ emitted' = r.em
        /\ bus' = <<>>
        /\ last' = [op |-> "announce", name |-> name, ret |-> r.ret, log |-> r.log,
                    call |-> call, callRet |-> lr.ret, seen |-> seen[name]]
        /\ timedOutCount' = [n \in Names |->
                IF n \in Created(services, r.svc) THEN 0 ELSE timedOutCount[n]]
        /\ tasks' = [tasks EXCEPT ![name] = @ + started]
        /\ UNCHANGED <<impl, now>>
        /\ Quiet

ListenerNext ==
    \/ \E userData \in Data, call \in ListenerCalls :
          AnnounceHeard("a", userData, TestInterval, TRUE, call)
          /\ UNCHANGED <<heard, period>>
    \/ Announce("a", "d1", TestInterval, TRUE) /\ UNCHANGED <<heard, period>>
    \/ Pause("a") /\ UNCHANGED <<heard, period>>
    \/ Resume("a", TestInterval, TRUE) /\ UNCHANGED <<heard, period>>
    \/ SendAnnouncement("a") /\ UNCHANGED <<heard, period>>
    \/ \E address \in Addresses :
          OnAnnouncement(MixedAnnouncement, address) /\ UNCHANGED <<heard, period>>
    \/ Tick /\ UNCHANGED <<heard, period>>
    \/ Advance /\ UNCHANGED <<heard, period>>

ListenerSpec == Init /\ [][ListenerNext]_vars

----------------------------------------------------------------------------
(* A service whose data cannot be encoded.                                   *)

EncodeNext ==
    \/ \E userData \in {"d1", Circular} :
          Announce("a", userData, TestInterval, TRUE) /\ UNCHANGED <<heard, period>>
    \/ \E userData \in {"d1", Circular} :
          Update("a", userData, TestInterval, TRUE) /\ UNCHANGED <<heard, period>>
    \/ Pause("a") /\ UNCHANGED <<heard, period>>
    \/ Resume("a", TestInterval, TRUE) /\ UNCHANGED <<heard, period>>
    \/ SendAnnouncement("a") /\ UNCHANGED <<heard, period>>
    \/ \E address \in Addresses :
          OnAnnouncement(MixedAnnouncement, address) /\ UNCHANGED <<heard, period>>
    \/ Tick /\ UNCHANGED <<heard, period>>
    \/ Advance /\ UNCHANGED <<heard, period>>

EncodeSpec == Init /\ [][EncodeNext]_vars

----------------------------------------------------------------------------
(* Announcements of one name that arrive from two origins.                  *)

OriginNext ==
    \/ Announce("a", "d1", TestInterval, TRUE) /\ UNCHANGED <<heard, period>>
    \/ Update("a", "d2", TestInterval, TRUE) /\ UNCHANGED <<heard, period>>
    \/ Pause("a") /\ UNCHANGED <<heard, period>>
    \/ Resume("a", TestInterval, TRUE) /\ UNCHANGED <<heard, period>>
    \/ \E available \in BOOLEAN, address \in Addresses \cup {OtherAddress} :
          OnAnnouncement([name |-> "a", data |-> "d1", interval |-> TestInterval,
                          available |-> available], address)
          /\ UNCHANGED <<heard, period>>
    \/ Tick /\ UNCHANGED <<heard, period>>
    \/ Advance /\ UNCHANGED <<heard, period>>

OriginSpec == Init /\ [][OriginNext]_vars

----------------------------------------------------------------------------
(* The period of the announce tasks: setInterval fixes it when the task is   *)
(* started, clearInterval ends the task.                                     *)

\* setInterval(sendAnnouncement, interval) in announce and UDP.resume,
\* setInterval(sendAnnouncement, self.services[name].annInterval) in
\* Discovery.prototype.resume
TaskPeriod(im, op, rec) ==
    IF im = "js" /\ op = "resume" THEN rec.annInterval ELSE rec.interval

Schedule ==
    period' = [n \in Names |->
        IF last'.name = n /\ last'.ret = "true" /\ last'.op \in {"announce", "resume"}
        THEN TaskPeriod(impl, last'.op, services'[n])
        ELSE IF last'.name = n /\ last'.ret = "true" /\ last'.op = "pause"
        THEN 0
        ELSE period[n]]

TimerNext ==
    \/ \E interval \in Intervals :
          Announce("a", "d1", interval, TRUE) /\ Schedule /\ UNCHANGED heard
    \/ \E interval \in Intervals :
          Update("a", "d1", interval, TRUE) /\ Schedule /\ UNCHANGED heard
    \/ Pause("a") /\ Schedule /\ UNCHANGED heard
    \/ \E interval \in Intervals :
          Resume("a", interval, TRUE) /\ Schedule /\ UNCHANGED heard
    \/ SendAnnouncement("a") /\ Schedule /\ UNCHANGED heard
    \/ \E interval \in {TestInterval, DEFAULT_INTERVAL}, address \in Addresses :
          OnAnnouncement([name |-> "a", data |-> "d1", interval |-> interval,
                          available |-> TRUE], address)
          /\ Schedule /\ UNCHANGED heard
    \/ Tick /\ Schedule /\ UNCHANGED heard
    \/ Advance /\ Schedule /\ UNCHANGED heard

TimerSpec == Init /\ [][TimerNext]_vars

----------------------------------------------------------------------------
(* The timeout test: test/test.js and test/timeout.js register one service  *)
(* with announce(name, data, 500, true), pause it, and listen.               *)

\* what on("available", ...) and on("unavailable", ...) listeners receive
Heard(em, n) == SelectSeq(em[n], LAMBDA e : e.ev \in ListenerNames)

Prefix(seq, k) == [i \in 1..(IF Len(seq) < k THEN Len(seq) ELSE k) |-> seq[i]]

Listen ==
    heard' = [n \in Names |-> Prefix(heard[n] \o Heard(emitted', n), MaxHeard)]

ScenarioNext ==
    \/ \E userData \in Data : Announce("a", userData, TestInterval, TRUE) /\ Listen /\ UNCHANGED period
    \/ Pause("a") /\ Listen /\ UNCHANGED period
    \/ Tick /\ Listen /\ UNCHANGED period
    \/ Advance /\ Listen /\ UNCHANGED period

ScenarioSpec == Init /\ [][ScenarioNext]_vars

\* setInterval: the liveness timer installed by the constructor keeps firing
FairScenarioSpec == ScenarioSpec /\ WF_vars(Tick /\ Listen /\ UNCHANGED period)

----------------------------------------------------------------------------
(* Claims *)

Emissions(em, n) == {em[n][i] : i \in 1..Len(em[n])}

\* now - lastSeenAt > 2 x interval, as the specification states it
Stale(svc, n, t) == Has(svc, n) /\ t - svc[n].lastAnnTm > 2 * svc[n].interval

\* C1: whenever the liveness tick emits unavailable/timedOut for a name, that
\* name's record is already removed from the registry when the observer is
\* invoked.
C1_TimedOutRecordAlreadyRemoved ==
    \A n \in Names : \A e \in Emissions(emitted, n) :
        e.reason = "timedOut" => ~e.present

\* C2: every record whose last received announcement is older than 2 x its
\* interval is eventually removed by the liveness monitor, given that the
\* constructor-installed tick keeps firing (or it is refreshed meanwhile);
\* after removal getData(name) returns not-found.
C2_StaleEventuallyRemoved ==
    \A n \in Names :
        Stale(services, n, now) ~> (getData(services, n) = "false" \/ ~Stale(services, n, now))

\* C3: a record that receives no refreshing announcement triggers at most one
\* (indeed exactly one) unavailable/timedOut notification, however many ticks
\* follow.
C3_OneTimedOutNotification ==
    \A n \in Names : timedOutCount[n] <= 1

\* C4: a liveness tick never removes and never reports a record with
\* now - lastSeenAt <= 2 x interval; a tick in which every record is within
\* threshold leaves the registry unchanged and emits nothing.
C4_TickSparesFreshRecords ==
    [][last'.op = "tick" =>
        /\ \A n \in DOMAIN services :
              now - services[n].lastAnnTm <= 2 * services[n].interval
                  => /\ Has(services', n)
                     /\ services'[n] = services[n]
                     /\ emitted'[n] = <<>>
        /\ (\A n \in DOMAIN services :
              now - services[n].lastAnnTm <= 2 * services[n].interval)
                  => services' = services /\ emitted' = NoEmissions]_vars

\* a tick reported one record and spared another that was within threshold
C4_Witness ==
    /\ last.op = "tick"
    /\ \E n \in Names : emitted[n] # <<>>
    /\ \E m \in DOMAIN services :
          emitted[m] = <<>> /\ now - services[m].lastAnnTm <= 2 * services[m].interval

\* C5: for a local service registered with announce(name, data, 500, true)
\* and then paused, a listener receives first exactly one available/new
\* notification and then, as the second notification, unavailable/timedOut.
C5_ListenerHearsNewThenTimedOut ==
    \A n \in Names :
        /\ (last.op = "announce" /\ last.name = n /\ last.ret = "true")
              => Len(heard[n]) >= 1
        /\ Len(heard[n]) >= 1
              => heard[n][1].ev = "available" /\ heard[n][1].reason = "new"
        /\ Len(heard[n]) >= 2
              => heard[n][2].ev = "unavailable" /\ heard[n][2].reason = "timedOut"

\* C6: every availability notification is emitted under the event name
\* available or unavailable with a reason in {new, availabilityChange,
\* timedOut}; application events are emitted only under the bus name.
C6_DocumentedEventNames ==
    /\ \A n \in Names : \A e \in Emissions(emitted, n) :
          e.ev \in ListenerNames /\ e.reason \in Reasons
    /\ \A i \in 1..Len(bus) : bus[i].ev = GLOBAL_EVENT_NAME

NewNotification(em, n, available) ==
    /\ Len(em[n]) = 1
    /\ em[n][1].reason = "new"
    /\ em[n][1].kind = (IF available THEN "available" ELSE "unavailable")

\* C7: a successful registration (local announce or first inbound
\* announcement) emits exactly one notification with reason new, available if
\* the supplied flag is true and unavailable if it is false, and the record
\* stores the supplied flag.
C7_RegistrationKeepsSuppliedFlag ==
    [][/\ \A n \in LocalNames, d \in Data, i \in Intervals, av \in BOOLEAN :
             (Announce(n, d, i, av) /\ ~Has(services, n) /\ Has(services', n))
                 => services'[n].available = av /\ NewNotification(emitted', n, av)
       /\ \A ann \in Announcements, address \in Addresses :
             (OnAnnouncement(ann, address) /\ ~Has(services, ann.name)
                 /\ Has(services', ann.name))
                 => /\ services'[ann.name].available = ann.available
                    /\ NewNotification(emitted', ann.name, ann.available)]_vars

ChangeNotification(em, n, available) ==
    /\ Len(em[n]) = 1
    /\ em[n][1].reason = "availabilityChange"
    /\ em[n][1].kind = (IF available THEN "available" ELSE "unavailable")

\* C9: changing the available value of an existing record through update or
\* through an inbound announcement emits exactly one availabilityChange
\* notification named for the new value; applying the same value again emits
\* none, while data and interval are still replaced.
C9_AvailabilityChangeNotified ==
    [][/\ \A n \in LocalNames, d \in Data, i \in Intervals, av \in BOOLEAN :
             (Update(n, d, i, av) /\ Has(services, n))
                 => /\ Has(services', n)
                    /\ services'[n].available = av
                    /\ services'[n].data = d
                    /\ i > 0 => services'[n].interval = i
                    /\ IF av # services[n].available
                       THEN ChangeNotification(emitted', n, av)
                       ELSE emitted'[n] = <<>>
       /\ \A ann \in Announcements, address \in Addresses :
             (OnAnnouncement(ann, address) /\ Has(services, ann.name))
                 => /\ Has(services', ann.name)
                    /\ services'[ann.name].available = ann.available
                    /\ services'[ann.name].data = ann.data
                    /\ ann.interval > 0 => services'[ann.name].interval = ann.interval
                    /\ IF ann.available # services[ann.name].available
                       THEN ChangeNotification(emitted', ann.name, ann.available)
                       ELSE emitted'[ann.name] = <<>>]_vars

C11_InvalidAnnounceRejected ==
    [][last'.op = "announce" =>
        \A bad \in BadAnnounceInputs :
            Announce(bad.name, bad.userData, TestInterval, TRUE)
                => /\ last'.ret = "false"
                   /\ services' = services
                   /\ tasks' = tasks
                   /\ emitted' = NoEmissions
                   /\ sent' = {}]_vars

\* an announce without data was rejected while the registry held records
C11_Witness ==
    /\ last.op = "announce" /\ last.ret = "false"
    /\ last.log = "announce error: no userData"
    /\ DOMAIN services # {}

\* C12: for every valid (name, data, interval, available) with name not yet
\* registered, announce followed immediately by getData(name) returns data
\* equal to the data that was supplied.
C12_AnnounceThenGetData ==
    [][last'.op = "announce" =>
        \A n \in LocalNames, d \in Data \cup {ArrayData}, i \in Intervals, av \in BOOLEAN :
            (Announce(n, d, i, av) /\ ~Has(services, n))
                => getData(services', n) = d]_vars

\* C13: in every reachable state every record's interval is > 0: a
\* non-positive or missing interval of an announce, update, resume or inbound
\* announcement has been replaced by the default 3000.
C13_IntervalPositive ==
    \A n \in DOMAIN services : services[n].interval > 0

\* C14: pause(name) returns false and changes nothing when name has no record
\* or the record has no active announce task; otherwise it returns true,
\* cancels exactly that record's periodic task and clears its task handle,
\* leaving every other record and every other announce task unchanged.
C14_PauseCancelsOwnTask ==
    [][last'.op = "pause" =>
        LET n == last'.name
        IN  IF ~Has(services, n) \/ ~services[n].intervalId
            THEN /\ last'.ret = "false"
                 /\ services' = services
                 /\ tasks' = tasks
                 /\ emitted' = NoEmissions
            ELSE /\ last'.ret = "true"
                 /\ DOMAIN services' = DOMAIN services
                 /\ services'[n] = [services[n] EXCEPT !.intervalId = FALSE]
                 /\ \A m \in DOMAIN services \ {n} : services'[m] = services[m]
                 /\ tasks'[n] = tasks[n] - 1
                 /\ \A m \in Names \ {n} : tasks'[m] = tasks[m]]_vars

\* a pause succeeded next to another record, and a later pause was rejected
C14_Witness ==
    /\ last.op = "pause" /\ last.ret = "false"
    /\ last.log = "stopAnnounce error: not announcing"
    /\ services[last.name].local
    /\ Has(services, "b")
    /\ tasks[last.name] = 0

\* a record registered here whose announce task was cancelled by pause and not
\* started again by resume
Paused(svc, n) == Has(svc, n) /\ svc[n].local /\ ~svc[n].intervalId

\* C15: after a successful pause(name) and until the next successful
\* resume(name), no Announcement datagram for name is sent; after a successful
\* resume(name) on a paused local service the announce task runs again.
C15_PausedServiceIsSilent ==
    [][/\ \A n \in sent' : ~Paused(services, n)
       /\ (last'.op = "resume" /\ last'.ret = "true")
             => /\ tasks'[last'.name] > 0
                /\ services'[last'.name].intervalId]_vars

\* C16: resume(name, interval) on a record whose announce task is already
\* active is rejected: it returns false and leaves the record unchanged,
\* including its interval, and starts no task.
C16_ResumeWhileActiveRejected ==
    [][(last'.op = "resume" /\ Has(services, last'.name)
            /\ services[last'.name].intervalId)
          => /\ last'.ret = "false"
             /\ services' = services
             /\ tasks' = tasks]_vars

\* C17: update(name, data, interval, available) for a name that has no record
\* fails by returning false: it creates no record, emits no notification and
\* does not raise an error.
C17_UpdateOfUnknownNameFails ==
    [][(last'.op = "update" /\ last'.name # NoName /\ ~Has(services, last'.name))
          => /\ last'.ret = "false"
             /\ services' = services
             /\ emitted' = NoEmissions]_vars

\* C18: update on an existing record has the same effect on the record as an
\* inbound announcement for it: it sets lastSeenAt to now, replaces data and
\* interval, and changes available (with one notification) only when the
\* value differs; so an application update postpones the record's timeout.
C18_UpdateRefreshesLikeAnnouncement ==
    [][last'.op = "update" =>
        \A n \in LocalNames, d \in Data, i \in Intervals, av \in BOOLEAN :
            (Update(n, d, i, av) /\ Has(services, n))
                => /\ Has(services', n)
                   /\ services'[n].lastAnnTm = now
                   /\ services'[n].data = d
                   /\ services'[n].interval = LocalInterval(i)
                   /\ emitted'[n] # <<>>
                         <=> services'[n].available # services[n].available]_vars

\* C19: an inbound announcement for a name already in the registry sets that
\* record's lastSeenAt to the current time and replaces its data and interval
\* with the announcement's values, without creating a second record.
C19_InboundAnnouncementRefreshes ==
    [][(rcvd'.kind = "announcement" /\ Has(services, rcvd'.ann.name))
          => LET n == rcvd'.ann.name
             IN  /\ last'.ret = "true"
                 /\ DOMAIN services' = DOMAIN services
                 /\ services'[n].lastAnnTm = now
                 /\ services'[n].data = rcvd'.ann.data
                 /\ services'[n].interval = rcvd'.ann.interval]_vars

\* an announcement heard later replaced the data of a record registered here
C19_Witness ==
    /\ rcvd.kind = "announcement"
    /\ Has(services, rcvd.ann.name)
    /\ emitted[rcvd.ann.name] = <<>>
    /\ services[rcvd.ann.name].local
    /\ services[rcvd.ann.name].lastAnnTm = now /\ now > TestInterval
    /\ services[rcvd.ann.name].data = "d2"

\* C20: an inbound datagram whose payload cannot be decoded is dropped: the
\* registry is unchanged, no notification is emitted, no error escapes the
\* message handler, and later datagrams are still processed.
C20_UndecodablePayloadDropped ==
    [][rcvd'.kind = "payload"
          => /\ last'.ret # "throw"
             /\ services' = services
             /\ emitted' = NoEmissions
             /\ bus' = <<>>]_vars

\* C21 as stated: an inbound message that carries an eventName field is handled
\* as an event, with exactly one notification on the message bus carrying
\* (eventName, data) and the registry unchanged, even when the message also
\* carries name, interval or available fields.
C21_EventNameFieldMeansEvent ==
    [][rcvd'.kind \in {"event", "mixed"}
          => /\ bus' = <<[ev |-> GLOBAL_EVENT_NAME, eventName |-> rcvd'.eventName,
                          data |-> IF rcvd'.kind = "mixed" THEN rcvd'.ann.data
                                   ELSE rcvd'.data]>>
             /\ services' = services
             /\ tasks' = tasks
             /\ emitted' = NoEmissions]_vars

\* C21: an inbound message that carries a non-empty eventName is handled as
\* an event: exactly one notification on the message bus carrying (eventName,
\* data), the registry unchanged, even when the message also carries the
\* fields of an announcement.
C21_NonEmptyEventNameMeansEvent ==
    [][(rcvd'.kind \in {"event", "mixed"} /\ rcvd'.eventName # "")
          => /\ bus' = <<[ev |-> GLOBAL_EVENT_NAME, eventName |-> rcvd'.eventName,
                          data |-> IF rcvd'.kind = "mixed" THEN rcvd'.ann.data
                                   ELSE rcvd'.data]>>
             /\ services' = services
             /\ tasks' = tasks
             /\ emitted' = NoEmissions]_vars

\* a message with an eventName and the fields of an announcement of an
\* unknown name arrived, and the bus was notified once
C21_Witness ==
    /\ rcvd.kind = "mixed"
    /\ rcvd.eventName = "Hello"
    /\ ~Has(services, rcvd.ann.name)
    /\ Len(bus) = 1
    /\ bus[1].eventName = "Hello"

\* C22: sendEventTo returns false only when the destination is not a non-empty
\* string, a non-empty array or a function, or when eventName is empty; in
\* every other case it returns true, also when the query selects no record or
\* the named target is unknown, in which case nothing is delivered.
C22_SendEventToResult ==
    [][last'.op = "sendEventTo"
          => LET dest == last'.dest
             IN  /\ last'.ret = IF dest.kind = "bad" \/ last'.eventName = ""
                                THEN "false" ELSE "true"
                 /\ (dest.kind = "name" /\ ~Has(services, dest.names[1]))
                        => (bus' = <<>> /\ wire' = <<>>)
                 /\ (dest.kind = "function"
                        /\ \A n \in DOMAIN services : ~Matches(dest.query, services[n]))
                        => (bus' = <<>> /\ wire' = <<>>)]_vars

\* C23: sendEventTo with a query function evaluates it against every record
\* of the registry and delivers the event to exactly the records for which it
\* holds, one delivery each.
C23_QuerySelectsTargets ==
    [][(last'.op = "sendEventTo" /\ last'.dest.kind = "function" /\ last'.eventName # "")
          => LET matching == {n \in DOMAIN services : Matches(last'.dest.query, services[n])}
                 locals == {n \in matching : services[n].local}
                 remotes == matching \ locals
             IN  /\ Len(bus') = Cardinality(locals)
                 /\ Len(wire') = Cardinality(remotes)
                 /\ {wire'[i].to : i \in DOMAIN wire'}
                        = {services[n].address : n \in remotes}]_vars

\* C24: for each resolved target, a local record gets exactly one notification
\* on the local bus and no datagram; a non-local record with an address gets
\* exactly one event datagram sent to that address and no local notification;
\* a non-local record without address gets nothing, and no error is raised.
C24_DeliveryPerTarget ==
    [][(/\ last'.op = "sendEventTo"
        /\ last'.dest.kind = "name"
        /\ last'.eventName # ""
        /\ Has(services, last'.dest.names[1]))
          => LET rec == services[last'.dest.names[1]]
                 event == [eventName |-> last'.eventName, data |-> last'.data]
             IN  /\ last'.ret # "throw"
                 /\ rec.local => /\ bus' = <<BusEvent(event.eventName, event.data)>>
                                 /\ wire' = <<>>
                 /\ (~rec.local /\ rec.address # NoAddress)
                        => /\ wire' = <<Datagram(rec.address, event)>>
                           /\ bus' = <<>>
                 /\ (~rec.local /\ rec.address = NoAddress)
                        => /\ wire' = <<>>
                           /\ bus' = <<>>]_vars

\* C25: the registry holds at most one record per name, and each record's
\* name field equals the key it is stored under; no operation changes it.
C25_NameIsTheKey ==
    \A n \in DOMAIN services : services[n].name = n

\* two records are held and the local one has just been updated
C25_Witness ==
    /\ Has(services, "a") /\ Has(services, "b")
    /\ last.op = "update" /\ last.ret = "true"
    /\ services["a"].data = "d2"

\* C26: for every local record with an active announce task, the task's
\* period equals the record's current interval, also after update, an inbound
\* announcement or resume changed the interval.
C26_TaskPeriodIsRecordInterval ==
    \A n \in DOMAIN services :
        (services[n].local /\ services[n].intervalId)
            => period[n] = services[n].interval

\* C27: an inbound announcement for a name not in the registry creates exactly
\* one record of that name with local=false, no announce task, the origin as
\* address, lastSeenAt = now and the announcement's data, interval and
\* available, and emits exactly one `new` notification for it.
C27_InboundAnnouncementCreatesRemoteRecord ==
    [][(/\ rcvd'.kind = "announcement"
        /\ rcvd'.ann.name # NoName
        /\ rcvd'.ann.interval > 0
        /\ ~Has(services, rcvd'.ann.name))
          => LET n == rcvd'.ann.name
             IN  /\ DOMAIN services' = DOMAIN services \cup {n}
                 /\ services'[n].name = n
                 /\ ~services'[n].local
                 /\ ~services'[n].intervalId
                 /\ tasks' = tasks
                 /\ services'[n].address = rcvd'.address
                 /\ services'[n].lastAnnTm = now
                 /\ services'[n].data = rcvd'.ann.data
                 /\ services'[n].interval = rcvd'.ann.interval
                 /\ services'[n].available = rcvd'.ann.available
                 /\ Len(emitted'[n]) = 1
                 /\ emitted'[n][1].reason = "new"
                 /\ \A m \in Names \ {n} : emitted'[m] = <<>>]_vars

\* C28: once a record's address has been set from an inbound announcement, no
\* later announcement from another origin, update, pause or resume changes it.
C28_FirstSeenAddressIsSticky ==
    [][\A n \in DOMAIN services \cap DOMAIN services' :
          services[n].address # NoAddress
             => services'[n].address = services[n].address]_vars

\* a record first heard from one origin has just been heard from another
C28_Witness ==
    /\ rcvd.kind = "announcement"
    /\ rcvd.address = OtherAddress
    /\ last.ret = "true"
    /\ Has(services, rcvd.ann.name)
    /\ services[rcvd.ann.name].address \in Addresses

\* C29: an announce task handle is present only on records with local = true,
\* whatever sequence of pause and resume calls is made.
C29_TaskOnlyOnLocalRecord ==
    \A n \in DOMAIN services : services[n].intervalId => services[n].local

\* C30: every announcement datagram an announce task sends carries the
\* record's current name, data, interval and available, carries neither
\* lastSeenAt nor the task handle nor an eventName, and is addressed to the
\* multicast group; the send does not modify the record.
C30_AnnouncementDatagram ==
    [][(last'.op = "send" /\ last'.ret = "true")
          => LET rec == services[last'.name]
             IN  /\ Len(wire') = 1
                 /\ wire'[1].to = MULTICAST_ADDRESS
                 /\ wire'[1].payload.name = rec.name
                 /\ wire'[1].payload.data = rec.data
                 /\ wire'[1].payload.interval = rec.interval
                 /\ wire'[1].payload.available = rec.available
                 /\ DOMAIN wire'[1].payload \cap {"lastAnnTm", "intervalId", "eventName"} = {}
                 /\ services' = services]_vars

\* the task of a record that was updated since it was announced has sent a
\* datagram carrying the updated data
C30_Witness ==
    /\ last.op = "send" /\ last.ret = "true"
    /\ Len(wire) = 1
    /\ wire[1].payload.data = "d2"
    /\ services[last.name].lastAnnTm < now

\* C31: an inbound announcement (a decoded message without eventName) that
\* lacks a name is rejected: handleAnnouncement returns false, no record is
\* created or updated, no lastSeenAt is refreshed and no notification is
\* emitted.
C31_NamelessAnnouncementRejected ==
    [][(rcvd'.kind = "announcement" /\ rcvd'.ann.name = NoName)
          => /\ last'.ret = "false"
             /\ services' = services
             /\ tasks' = tasks
             /\ emitted' = NoEmissions
             /\ bus' = <<>>]_vars

\* a nameless announcement arrived while a record announced earlier was held
C31_Witness ==
    /\ rcvd.kind = "announcement"
    /\ rcvd.ann.name = NoName
    /\ last.ret = "false"
    /\ Has(services, "a")
    /\ services["a"].lastAnnTm < now

\* C32: a single failed announcement send (an encode failure when an announce
\* task fires) is not fatal: the record and its announce task handle are
\* unchanged, no error escapes the timer callback, and the task fires again
\* at its next period.
C32_FailedSendIsNotFatal ==
    [][(/\ last'.op = "send"
        /\ Has(services, last'.name)
        /\ ~Serializable(services[last'.name].data))
          => /\ last'.ret # "throw"
             /\ services' = services
             /\ tasks' = tasks
             /\ tasks'[last'.name] > 0]_vars

\* C33: a listener invoked for a notification observes the registry after the
\* triggering operation has completed: when the new notification of a local
\* registration is delivered, the record has its lastSeenAt set and its
\* announce task started, so pause(name) called from the listener succeeds.
C33_ListenerSeesCompletedRegistration ==
    [][(last'.op = "announce" /\ last'.ret = "true" /\ "call" \in DOMAIN last')
          => /\ last'.seen.lastAnnTm = now
             /\ last'.seen.intervalId
             /\ last'.call = "pause" => last'.callRet = "true"]_vars

\* C34: the record passed to observers with an unavailable/timedOut
\* notification is the timed-out service's last-known state: never an absent
\* value and never a live reference to a record still in the registry.
C34_TimedOutRecordIsSnapshot ==
    \A n \in Names : \A e \in Emissions(emitted, n) :
        e.reason = "timedOut"
            => /\ e.rec # "undefined"
               /\ ~(e.rec = "live" /\ e.present)

\* C36: every live announce timer belongs to a record currently in the
\* registry: when the liveness monitor removes a record its announce task is
\* cancelled in the same step, so an announce task never fires for a name
\* that is absent from the registry.
C36_TimersBelongToRecords ==
    \A n \in Names : tasks[n] > 0 => Has(services, n)

\* C35: in every reachable state there is at most one live announce timer per
\* service name and the record's task handle refers to it, for any
\* interleaving of announce, pause and resume, also when a listener calls
\* resume or pause for the name from the new notification of its registration.
C35_OneTimerPerName ==
    \A n \in Names :
        tasks[n] = IF Has(services, n) /\ services[n].intervalId THEN 1 ELSE 0

\* C37: the liveness monitor applies the timeout rule to local records as to
\* remote ones: a record's lastSeenAt is refreshed only by an inbound
\* announcement for its name, never by sending its own announcement, so a
\* local service with an active announce task is reported timedOut whenever
\* none of its announcements came back for more than 2 x interval.
C37_LocalRecordsTimeOutToo ==
    [][/\ last'.op = "send" => services' = services
       /\ \A n \in DOMAIN services \cap DOMAIN services' :
             services'[n].lastAnnTm # services[n].lastAnnTm
                => rcvd'.kind \in {"announcement", "mixed"} /\ rcvd'.ann.name = n
       /\ last'.op = "tick"
             => \A n \in DOMAIN services :
                   (services[n].local /\ services[n].intervalId /\ Stale(services, n, now))
                      => \E e \in Emissions(emitted', n) : e.reason = "timedOut"]_vars

\* C38: after a name has been timed out the name is free again: a later
\* announce(name, ...) or inbound announcement for it succeeds through the
\* new-record path and emits a notification with reason new, while
\* pause(name), resume(name) and getData(name) issued before that fail as for
\* an unknown name.
C38_TimedOutNameIsFree ==
    [][\A n \in Names :
          timedOutCount[n] > 0
             => /\ pause(services, n).ret = "false"
                /\ resume(impl, services, n, TestInterval, TRUE).ret = "false"
                /\ getData(services, n) = "false"
                /\ (/\ last'.op = "announce"
                    /\ last'.name = n
                    /\ last'.log \in {"addNew", "addNew: already exists"})
                      => /\ last'.ret = "true"
                         /\ \E e \in Emissions(emitted', n) : e.reason = "new"
                /\ (rcvd'.kind = "announcement" /\ rcvd'.ann.name = n)
                      => /\ last'.ret = "true"
                         /\ \E e \in Emissions(emitted', n) : e.reason = "new"]_vars

\* C39: an update or an inbound announcement for an existing record never
\* changes the record's local flag or its announce task handle: a remote
\* announcement carrying the name of a locally registered service overwrites
\* that record's data, interval and available, but the record stays local
\* and keeps announcing.
C39_UpdateKeepsLocalAndTask ==
    [][/\ (last'.op = "update" /\ last'.ret = "true" /\ Has(services, last'.name))
             => LET n == last'.name
                IN  /\ services'[n].local = services[n].local
                    /\ services'[n].intervalId = services[n].intervalId
                    /\ tasks' = tasks
       /\ (rcvd'.kind = "announcement" /\ Has(services, rcvd'.ann.name))
             => LET n == rcvd'.ann.name
                IN  /\ services'[n].local = services[n].local
                    /\ services'[n].intervalId = services[n].intervalId
                    /\ tasks' = tasks
                    /\ services'[n].data = rcvd'.ann.data
                    /\ services'[n].interval = rcvd'.ann.interval
                    /\ services'[n].available = rcvd'.ann.available]_vars

\* a remote announcement overwrote the data and availability of a local
\* record that is announcing, and the record is still local and announcing
C39_Witness ==
    /\ rcvd.kind = "announcement"
    /\ Has(services, rcvd.ann.name)
    /\ services[rcvd.ann.name].local
    /\ services[rcvd.ann.name].intervalId
    /\ tasks[rcvd.ann.name] = 1
    /\ services[rcvd.ann.name].data = "d2"
    /\ ~services[rcvd.ann.name].available
    /\ emitted[rcvd.ann.name] # <<>>

====
